---- MODULE Spec2Model ----
(***************************************************************************)
(* Model of the orchestration core of game/DailyTasks.py:                  *)
(*   TeamTaskCoordinator   - registry of ad-hoc teams                      *)
(*   WindowTaskExecutor    - one window's sequential task pipeline         *)
(*   DailyTasks            - start_task / stop_tasks over many windows     *)
(*   GameAutomationManager - semaphore-bounded task submission             *)
(* The coroutines run on one asyncio event loop, so every action below is  *)
(* the code between two suspension points of a coroutine.                  *)
(***************************************************************************)
EXTENDS Integers, Sequences, FiniteSets, TLC

\* ------------------------------------------------------------------ bounds
NumWindows == 2
MaxCalls == 2
MaxExecutors == 2
MaxClock == 2

Windows == 1..NumWindows

\* ------------------------------------------------------------------ values
None == "None"
NoTeam == <<>>

VARIABLES
    clock,              \* time.time() in half seconds
    team_tasks,         \* TeamTaskCoordinator.team_tasks
    team_members,       \* TeamTaskCoordinator.team_members
    team_events,        \* TeamTaskCoordinator.team_events: team id -> Event object
    ev_set,             \* the asyncio.Event objects that are set
    raises,             \* input: the pipeline tasks whose function raises
    dt_is_running,      \* DailyTasks.is_running
    window_executors,   \* DailyTasks.window_executors: hwnd -> executor object
    available_windows,  \* window_info['available_windows'] of each window dict
    executors,          \* the WindowTaskExecutor objects, in creation order
    calls,              \* the start_task invocations, in call order; stopped
                        \* notes that stop_tasks was called while the call
                        \* awaited its executors
    co_returned,        \* the team ids create_team returned to direct callers
    waits,              \* the wait_for_team_ready calls, in call order
    co_given,           \* live team id -> the leader and members its latest
                        \* create_team call was given
    co_gone,            \* the team ids disband_team has removed
    co_readied,         \* the team ids set_team_ready has made ready
    co_noop,            \* the kinds of repeated call made so far: a
                        \* set_team_ready on a ready team, a disband_team on
                        \* a disbanded one
    max_concurrent,     \* GameAutomationManager.max_concurrent
    sem_value,          \* the free slots of GameAutomationManager.semaphore
    active_tasks,       \* GameAutomationManager.active_tasks: task id -> Task
    task_results,       \* GameAutomationManager.task_results
    task_counter,       \* GameAutomationManager.task_counter
    mtasks,             \* the asyncio.Task objects submit_task created
    waitall,            \* the wait_all_complete calls, in call order
    snapshots,          \* the dicts get_results returned, in call order
    mates_in,           \* the window list, the window and the team_size a
                        \* team task is executed with
    mates_out,          \* what _get_teammates_for_task returned for them
    stop_event,         \* ThreadedGameLauncher.stop_event is set
    launches,           \* the launch_games_threaded calls, in call order
    caller_stopped      \* the caller has set stop_event

coordVars == <<team_tasks, team_members, team_events, ev_set>>
runVars == <<raises, dt_is_running, window_executors, available_windows, executors, calls>>
coApiVars == <<co_returned, waits, co_given, co_gone, co_readied, co_noop>>
mgrVars == <<max_concurrent, sem_value, active_tasks, task_results, task_counter,
             mtasks, waitall, snapshots>>
matesVars == <<mates_in, mates_out>>
launcherVars == <<stop_event, launches, caller_stopped>>
vars == <<clock, coordVars, runVars, coApiVars, mgrVars, matesVars, launcherVars>>

\* ------------------------------------------------------------------ helpers
Range(s) == {s[i] : i \in DOMAIN s}

Min(a, b) == IF a < b THEN a ELSE b

Max(a, b) == IF a > b THEN a ELSE b

\* Python's s[:n] on a list: a negative n counts from the end.
SliceTo(s, n) ==
    LET stop == IF n < 0 THEN Max(Len(s) + n, 0) ELSE Min(n, Len(s))
    IN  SubSeq(s, 1, stop)

\* [x for x in s if x != h]
Without(s, h) == SelectSeq(s, LAMBDA x : x # h)

\* the ascending list of a set of window handles
RECURSIVE SeqOfSet(_)
SeqOfSet(S) ==
    IF S = {} THEN <<>>
    ELSE LET m == CHOOSE x \in S : \A y \in S : x <= y
         IN  <<m>> \o SeqOfSet(S \ {m})

\* int(time.time()): the clock counts half seconds
IntTime(c) == c \div 2

\* ------------------------------------------------------------------ TeamTaskCoordinator
\* f"{task_name}_{leader_hwnd}_{int(time.time())}": the two trailing fields are
\* integers, so the string is determined by, and determines, the triple.
TeamId(task_name, leader_hwnd, c) == <<task_name, leader_hwnd, IntTime(c)>>

Registry == [tasks |-> team_tasks, members |-> team_members, events |-> team_events]

create_team(reg, team_id, task_name, leader_hwnd, member_hwnds, ev) ==
    [tasks |-> (team_id :> [task_name |-> task_name,
                            leader |-> leader_hwnd,
                            members |-> member_hwnds,
                            status |-> "forming"]) @@ reg.tasks,
     members |-> (team_id :> (<<leader_hwnd>> \o member_hwnds)) @@ reg.members,
     events |-> (team_id :> ev) @@ reg.events]

DropKey(f, k) == [x \in DOMAIN f \ {k} |-> f[x]]

\* a disband that leaves a record of status "disbanded" behind, for any id
disband_team_Tombstone(reg, team_id) ==
    [tasks |-> (team_id :> [task_name |-> team_id[1],
                            leader |-> team_id[2],
                            members |-> <<>>,
                            status |-> "disbanded"]) @@ reg.tasks,
     members |-> DropKey(reg.members, team_id),
     events |-> DropKey(reg.events, team_id)]

\* a disband that forgets the team's Event
disband_team_KeepEvent(reg, team_id) ==
    IF team_id \in DOMAIN reg.tasks
    THEN [tasks |-> DropKey(reg.tasks, team_id),
          members |-> DropKey(reg.members, team_id),
          events |-> reg.events]
    ELSE reg

disband_team(reg, team_id) ==
    IF team_id \in DOMAIN reg.tasks
    THEN [tasks |-> DropKey(reg.tasks, team_id),
          members |-> DropKey(reg.members, team_id),
          events |-> DropKey(reg.events, team_id)]
    ELSE reg

\* a lookup that tests the member list before the leader
get_team_role_MembersFirst(reg, team_id, hwnd) ==
    IF team_id \notin DOMAIN reg.tasks THEN "solo"
    ELSE IF hwnd \in Range(reg.tasks[team_id].members) THEN "member"
    ELSE IF hwnd = reg.tasks[team_id].leader THEN "leader"
    ELSE "solo"

get_team_role(reg, team_id, hwnd) ==
    IF team_id \notin DOMAIN reg.tasks THEN "solo"
    ELSE IF hwnd = reg.tasks[team_id].leader THEN "leader"
    ELSE IF hwnd \in Range(reg.tasks[team_id].members) THEN "member"
    ELSE "solo"

get_team_members(reg, team_id) ==
    IF team_id \in DOMAIN reg.members THEN reg.members[team_id] ELSE <<>>

SetRegistry(reg) ==
    /\ team_tasks' = reg.tasks
    /\ team_members' = reg.members
    /\ team_events' = reg.events

\* ------------------------------------------------------------------ WindowTaskExecutor
\* _get_task_sequence: solo_tasks + team_tasks + weekly_tasks, each entry
\* (task_name, task_func, task_config); team_size is task_config's 'team_size'.
Pipeline ==
    << [name |-> "bang_pai_ren_wu", is_team_task |-> FALSE, team_size |-> 5],
       [name |-> "san_jie_yao_wang", is_team_task |-> TRUE, team_size |-> 5],
       [name |-> "ye_wai_feng_yao", is_team_task |-> TRUE, team_size |-> 5] >>

TaskNames == {Pipeline[i].name : i \in DOMAIN Pipeline}

NotReturned == [status |-> "pending", task_results |-> <<>>, error |-> None]

\* WindowTaskExecutor.__init__
NewExecutor(hwnd) ==
    [hwnd |-> hwnd,
     is_running |-> FALSE,
     is_connected |-> FALSE,
     current_team_id |-> NoTeam,
     pc |-> "created",
     idx |-> 0,
     role |-> None,
     team_id |-> NoTeam,
     results |-> <<>>,
     ret |-> NotReturned]

get_teammates_for_task(all_windows, hwnd, team_size) ==
    LET teammates == Without(all_windows, hwnd)
    IN  IF teammates # <<>> THEN SliceTo(teammates, team_size - 1) ELSE <<>>

\* _execute_solo_task up to the await of the task function
execute_solo_task(ex, i, reg) ==
    [ex |-> [ex EXCEPT !.pc = "task", !.idx = i, !.role = "solo", !.team_id = NoTeam],
     reg |-> reg]

\* _execute_team_task up to the await of the task function: with teammates
\* the team is created and the role looked up, without any the task is run
\* solo.
execute_team_task(ex, e, i, task_name, team_size, all_windows, reg, c) ==
    LET mates == get_teammates_for_task(all_windows, ex.hwnd, team_size)
        id == TeamId(task_name, ex.hwnd, c)
        reg2 == create_team(reg, id, task_name, ex.hwnd, mates, <<e, i>>)
    IN  IF mates # <<>>
        THEN [ex |-> [ex EXCEPT !.pc = "task", !.idx = i,
                                !.current_team_id = id,
                                !.team_id = id,
                                !.role = get_team_role(reg2, id, ex.hwnd)],
              reg |-> reg2]
        ELSE execute_solo_task(ex, i, reg)

\* _execute_single_task up to the await of the task function
BeginTask(ex, e, i, reg, c) ==
    LET spec == Pipeline[i]
    IN  IF spec.is_team_task
        THEN execute_team_task(ex, e, i, spec.name, spec.team_size,
                               available_windows[ex.hwnd], reg, c)
        ELSE execute_solo_task(ex, i, reg)

\* the return of execute_all_tasks and its finally clause
Finish(ex, reg) ==
    [ex |-> [ex EXCEPT !.pc = "done",
                       !.is_running = FALSE,
                       !.role = None,
                       !.team_id = NoTeam,
                       !.ret = [status |-> "success",
                                task_results |-> ex.results,
                                error |-> None]],
     reg |-> IF ex.current_team_id # NoTeam
             THEN disband_team(reg, ex.current_team_id)
             ELSE reg]

\* a loop without the inner try: a failed task ends the pipeline
NextTask_AbortOnFailure(ex, e, i, reg, c) ==
    IF /\ i < Len(Pipeline)
       /\ ex.is_running
       /\ (i = 0 \/ ex.results[Pipeline[i].name].status # "failed")
    THEN BeginTask(ex, e, i + 1, reg, c)
    ELSE Finish(ex, reg)

\* a loop that passes over the task after a finished one
NextTask_SkipOne(ex, e, i, reg, c) ==
    IF i + 1 < Len(Pipeline) /\ ex.is_running
    THEN BeginTask(ex, e, i + 2, reg, c)
    ELSE Finish(ex, reg)

\* the head of the for loop after task i: the next task, or the end
NextTask(ex, e, i, reg, c) ==
    IF i < Len(Pipeline) /\ ex.is_running
    THEN BeginTask(ex, e, i + 1, reg, c)
    ELSE Finish(ex, reg)

\* the entry written to results[task_name] when the task function is over
TaskResult(ex, failed) ==
    IF failed
    THEN [status |-> "failed", role |-> None, team_id |-> NoTeam, error |-> "error"]
    ELSE [status |-> "success", role |-> ex.role, team_id |-> ex.team_id, error |-> None]

RecordResult(ex, failed) ==
    [ex EXCEPT !.results = (Pipeline[ex.idx].name :> TaskResult(ex, failed)) @@ @]

\* execute_all_tasks from its first line to the await inside the first task.
\* connect_to_window_async returns True or False and never raises; the
\* executor drops the value.
ExecBegin(e) ==
    /\ e \in DOMAIN executors
    /\ executors[e].pc = "created"
    /\ \E connected \in BOOLEAN :
        LET ex == executors[e]
            step == IF ex.is_running
                    THEN [ex |-> [ex EXCEPT !.pc = "done",
                                            !.ret = [status |-> "running",
                                                     task_results |-> <<>>,
                                                     error |-> None]],
                          reg |-> Registry]
                    ELSE NextTask([ex EXCEPT !.is_running = TRUE,
                                             !.is_connected = connected],
                                  e, 0, Registry, clock)
        IN  /\ executors' = [executors EXCEPT ![e] = step.ex]
            /\ SetRegistry(step.reg)
    /\ UNCHANGED <<clock, ev_set, raises, dt_is_running, window_executors,
                   available_windows, calls, coApiVars, mgrVars, matesVars, launcherVars>>

\* the task function returns or raises: the result is recorded and the loop
\* goes on to the next task, or the executor returns.
ExecTaskDone(e) ==
    /\ e \in DOMAIN executors
    /\ executors[e].pc = "task"
    /\ LET ex == executors[e]
           ex1 == RecordResult(ex, ex.idx \in raises)
           step == NextTask(ex1, e, ex.idx, Registry, clock)
       IN  /\ executors' = [executors EXCEPT ![e] = step.ex]
           /\ SetRegistry(step.reg)
    /\ UNCHANGED <<clock, ev_set, raises, dt_is_running, window_executors,
                   available_windows, calls, coApiVars, mgrVars, matesVars, launcherVars>>

\* ------------------------------------------------------------------ DailyTasks
Selections == {SeqOfSet(S) : S \in SUBSET Windows}

NewCall(sel, first, n, started) ==
    [selected |-> sel,
     tasks |-> [j \in 1..n |-> first + j],
     pc |-> IF started THEN "gather" ELSE "returned",
     outcome |-> IF sel = <<>> THEN "rejected_empty"
                 ELSE IF dt_is_running THEN "rejected_running"
                 ELSE IF started THEN "started" ELSE "error",
     gathered |-> <<>>,
     stopped |-> FALSE,
     ret |-> None]

\* a start_task that raises the running flag before it checks its input
StartTask_FlagBeforeChecks(sel, bad) ==
    /\ Len(calls) < MaxCalls
    /\ sel \in Selections
    /\ bad = 0
    /\ sel = <<>> \/ dt_is_running
    /\ calls' = Append(calls, NewCall(sel, 0, 0, FALSE))
    /\ dt_is_running' = TRUE
    /\ UNCHANGED <<clock, coordVars, raises, window_executors, available_windows,
                   executors, coApiVars, mgrVars, matesVars, launcherVars>>

\* start_task up to its await of asyncio.gather, or to its return. bad is
\* the position in selected_windows of the first window whose
\* WindowTaskExecutor constructor raises (0: none does).
StartTask(sel, bad) ==
    /\ Len(calls) < MaxCalls
    /\ sel \in Selections
    /\ bad \in 0..Len(sel)
    /\ IF sel = <<>> \/ dt_is_running
       THEN /\ bad = 0
            /\ calls' = Append(calls, NewCall(sel, 0, 0, FALSE))
            /\ UNCHANGED <<dt_is_running, window_executors, available_windows, executors>>
       ELSE LET n == IF bad = 0 THEN Len(sel) ELSE bad - 1
                m == IF bad = 0 THEN Len(sel) ELSE bad
                first == Len(executors)
            IN  /\ first + n <= MaxExecutors
                /\ available_windows' =
                       [h \in Windows |->
                           IF \E j \in 1..m : sel[j] = h THEN sel
                           ELSE available_windows[h]]
                /\ executors' = executors \o [j \in 1..n |-> NewExecutor(sel[j])]
                /\ window_executors' =
                       [h \in DOMAIN window_executors \cup {sel[j] : j \in 1..n} |->
                           IF \E j \in 1..n : sel[j] = h
                           THEN first + (CHOOSE j \in 1..n : sel[j] = h)
                           ELSE window_executors[h]]
                /\ dt_is_running' = (bad = 0)
                /\ calls' = Append(calls, NewCall(sel, first, n, bad = 0))
    /\ UNCHANGED <<clock, coordVars, raises, coApiVars, mgrVars, matesVars, launcherVars>>

\* asyncio.gather(*tasks, return_exceptions=True) is over: the finally clause
\* runs and start_task returns None.
GatherDone(k) ==
    /\ k \in DOMAIN calls
    /\ calls[k].pc = "gather"
    /\ \A j \in DOMAIN calls[k].tasks : executors[calls[k].tasks[j]].pc = "done"
    /\ calls' = [calls EXCEPT ![k].pc = "returned",
                              ![k].gathered =
                                  [j \in DOMAIN calls[k].tasks |->
                                      executors[calls[k].tasks[j]].ret]]
    /\ dt_is_running' = FALSE
    /\ UNCHANGED <<clock, coordVars, raises, window_executors, available_windows,
                   executors, coApiVars, mgrVars, matesVars, launcherVars>>

\* stop_tasks
StopTasks ==
    /\ dt_is_running' = FALSE
    /\ executors' = [e \in DOMAIN executors |->
                        IF e \in Range(window_executors)
                        THEN [executors[e] EXCEPT !.is_running = FALSE]
                        ELSE executors[e]]
    /\ calls' = [k \in DOMAIN calls |->
                    IF calls[k].pc = "gather"
                    THEN [calls[k] EXCEPT !.stopped = TRUE]
                    ELSE calls[k]]
    /\ UNCHANGED <<clock, coordVars, raises, window_executors, available_windows,
                   coApiVars, mgrVars, matesVars, launcherVars>>

\* time passes
Tick ==
    /\ clock < MaxClock
    /\ clock' = clock + 1
    /\ UNCHANGED <<coordVars, runVars, coApiVars, mgrVars, matesVars, launcherVars>>

\* TeamTaskCoordinator.__init__
CoordInit ==
    /\ team_tasks = <<>>
    /\ team_members = <<>>
    /\ team_events = <<>>
    /\ ev_set = {}
    /\ co_returned = <<>>
    /\ waits = <<>>
    /\ co_given = <<>>
    /\ co_gone = {}
    /\ co_readied = {}
    /\ co_noop = {}

\* DailyTasks.__init__
RunInit ==
    /\ dt_is_running = FALSE
    /\ window_executors = <<>>
    /\ available_windows = [h \in Windows |-> <<>>]
    /\ executors = <<>>
    /\ calls = <<>>

\* no team task executed apart from a run
MatesIdle ==
    /\ mates_in = [all_windows |-> <<>>, hwnd |-> 1, team_size |-> 5]
    /\ mates_out = [called |-> FALSE, value |-> <<>>]

\* ThreadedGameLauncher.__init__
LauncherInit ==
    /\ stop_event = FALSE
    /\ launches = <<>>
    /\ caller_stopped = FALSE

\* GameAutomationManager.__init__
MgrInit(k) ==
    /\ max_concurrent = k
    /\ sem_value = k
    /\ active_tasks = <<>>
    /\ task_results = <<>>
    /\ task_counter = 0
    /\ mtasks = <<>>
    /\ waitall = <<>>
    /\ snapshots = <<>>

Init ==
    /\ clock = 0
    /\ CoordInit
    /\ RunInit
    /\ raises \in SUBSET DOMAIN Pipeline
    /\ MgrInit(3)
    /\ MatesIdle
    /\ LauncherInit

Next ==
    \/ \E sel \in Selections : \E bad \in 0..Len(sel) : StartTask(sel, bad)
    \/ \E e \in 1..MaxExecutors : ExecBegin(e)
    \/ \E e \in 1..MaxExecutors : ExecTaskDone(e)
    \/ \E k \in 1..MaxCalls : GatherDone(k)
    \/ StopTasks
    \/ Tick

Spec == Init /\ [][Next]_vars

\* ------------------------------------------------------------------ claims on a run
CallOf(e) == CHOOSE k \in DOMAIN calls : e \in Range(calls[k].tasks)

\* executor e has finished pipeline task i
TaskOver(ex, i) == Pipeline[i].name \in DOMAIN ex.results

\* executor e starts pipeline task i in this step
StartsTask(e, i) ==
    /\ e \in DOMAIN executors
    /\ ~(executors[e].pc = "task" /\ executors[e].idx = i)
    /\ executors'[e].pc = "task" /\ executors'[e].idx = i

C3_State ==
    \A e \in DOMAIN executors :
        LET ex == executors[e]
        IN  /\ \A i \in DOMAIN Pipeline :
                (i < ex.idx \/ (ex.pc = "done" /\ i <= ex.idx)) =>
                    /\ TaskOver(ex, i)
                    /\ ex.results[Pipeline[i].name].status =
                           (IF i \in raises THEN "failed" ELSE "success")
                    /\ i \in raises => ex.results[Pipeline[i].name].error = "error"
            /\ (ex.pc = "done" /\ ex.idx = Len(Pipeline)) =>
                    /\ ex.ret.status = "success"
                    /\ DOMAIN ex.ret.task_results = TaskNames

C3_Step ==
    \A e \in DOMAIN executors : \A i \in DOMAIN Pipeline :
        (/\ i \in raises
         /\ ~TaskOver(executors[e], i)
         /\ TaskOver(executors'[e], i)) =>
            /\ executors'[e].results[Pipeline[i].name].status = "failed"
            /\ (i < Len(Pipeline) /\ executors[e].is_running) => StartsTask(e, i + 1)

\* C3: a task function that raises is recorded as a failed result carrying
\* the error, the next task of the pipeline is started right after it (unless
\* the executor was told to stop), and an executor that went through its
\* whole pipeline returns one result per task.
C3_FailureIsolation == [](C3_State) /\ [][C3_Step]_vars

C3_Witness ==
    \E e \in DOMAIN executors :
        /\ executors[e].pc = "done"
        /\ DOMAIN executors[e].ret.task_results = TaskNames
        /\ executors[e].ret.task_results[Pipeline[1].name].status = "failed"
        /\ executors[e].ret.task_results[Pipeline[2].name].status = "failed"
        /\ executors[e].ret.task_results[Pipeline[3].name].status = "success"

\* a call that passed the input checks of start_task
Accepted(k) == calls[k].outcome \in {"started", "error"}

\* C4: start_task returns only after the executor of every selected window
\* has finished; a failing window (constructor, connection or task) leaves no
\* other selected window without a finished executor. In a call that ended
\* with a constructor error, the window after the last created executor is
\* the one whose constructor raised.
C4_CrossClientIsolation ==
    \A k \in DOMAIN calls :
        (Accepted(k) /\ calls[k].pc = "returned") =>
            \A j \in DOMAIN calls[k].selected :
                (calls[k].outcome = "error" => j # Len(calls[k].tasks) + 1) =>
                    \E e \in Range(calls[k].tasks) :
                        /\ executors[e].hwnd = calls[k].selected[j]
                        /\ executors[e].pc = "done"

\* C5: an executor whose connection failed starts no pipeline task and
\* returns a single failed result carrying the connection error.
C5_ConnectionFailure ==
    \A e \in DOMAIN executors :
        (executors[e].pc # "created" /\ ~executors[e].is_connected) =>
            /\ executors[e].pc = "done"
            /\ executors[e].results = <<>>
            /\ executors[e].ret.status = "failed"
            /\ executors[e].ret.error # None

\* C6: an accepted start_task over N windows returns a report with exactly N
\* entries, one per selected window.
C6_ReportComplete ==
    \A k \in DOMAIN calls :
        (Accepted(k) /\ calls[k].pc = "returned") =>
            /\ calls[k].ret # None
            /\ DOMAIN calls[k].ret = Range(calls[k].selected)

\* some executor of call k has not finished
RunActive(k) == \E e \in Range(calls[k].tasks) : executors[e].pc # "done"

\* C7: two runs are never active at the same time (stated for the calls that
\* created all their executors and went on to await them).
C7_SingleActiveRun ==
    \A k1, k2 \in DOMAIN calls :
        (k1 < k2 /\ calls[k1].outcome = "started" /\ calls[k2].outcome = "started") =>
            ~(RunActive(k1) /\ RunActive(k2))

\* C8: once stop_tasks has been called during a run, no executor of the run
\* starts a further pipeline task.
C8_NoStartAfterStop ==
    [][\A e \in DOMAIN executors : \A i \in DOMAIN Pipeline :
          StartsTask(e, i) => ~calls[CallOf(e)].stopped]_vars

\* the executors of call k holding a successful result for task i
Succeeded(k, i) ==
    {e \in Range(calls[k].tasks) :
        /\ TaskOver(executors[e], i)
        /\ executors[e].results[Pipeline[i].name].status = "success"}

RoleOf(e, i) == executors[e].results[Pipeline[i].name].role

TeamOf(e, i) == executors[e].results[Pipeline[i].name].team_id

\* C9: the clients of one run that executed the same team task are in one
\* team: one records leader, the others member, all the same team id.
C9_TeamRendezvous ==
    \A k \in DOMAIN calls : \A i \in DOMAIN Pipeline :
        (Pipeline[i].is_team_task /\ Cardinality(Succeeded(k, i)) >= 2) =>
            /\ Cardinality({e \in Succeeded(k, i) : RoleOf(e, i) = "leader"}) = 1
            /\ \A e \in Succeeded(k, i) : RoleOf(e, i) \in {"leader", "member"}
            /\ \A e1, e2 \in Succeeded(k, i) : TeamOf(e1, i) = TeamOf(e2, i)

\* the teams in the registry whose Event object executor e created
TeamsCreatedBy(e) == {id \in DOMAIN team_events : team_events[id][1] = e}

\* C10: the team an executor created for a team task is gone from the
\* registry when the executor is in its next task, and none of its teams is
\* left when it has returned.
C10_TeamCleanup ==
    \A e \in DOMAIN executors :
        /\ executors[e].pc = "task" =>
               \A id \in TeamsCreatedBy(e) : team_events[id][2] = executors[e].idx
        /\ executors[e].pc = "done" => TeamsCreatedBy(e) = {}

C19_RejectedNoTrace ==
    [][(/\ Len(calls') = Len(calls) + 1
        /\ calls'[Len(calls')].outcome \in {"rejected_empty", "rejected_running"}) =>
          /\ calls'[Len(calls')].tasks = <<>>
          /\ calls'[Len(calls')].pc = "returned"
          /\ UNCHANGED <<dt_is_running, window_executors, executors,
                         available_windows, coordVars>>]_vars

C19_Witness ==
    \E k1, k2 \in DOMAIN calls :
        /\ calls[k1].outcome = "started"
        /\ calls[k2].outcome = "rejected_running"
        /\ k1 < k2
        /\ RunActive(k1)
        /\ dt_is_running

\* the names of the first n pipeline tasks
FirstNames(n) == {Pipeline[i].name : i \in 1..n}

C24_State ==
    \A e \in DOMAIN executors :
        LET ex == executors[e]
        IN  DOMAIN ex.results =
                FirstNames(IF ex.pc = "task" THEN ex.idx - 1 ELSE ex.idx)

C24_Step ==
    \A e \in DOMAIN executors : \A i \in DOMAIN Pipeline :
        StartsTask(e, i) =>
            \/ i = 1 /\ executors[e].pc = "created"
            \/ /\ executors[e].pc = "task"
               /\ executors[e].idx = i - 1
               /\ ~TaskOver(executors[e], i - 1)
               /\ TaskOver(executors'[e], i - 1)
               /\ executors'[e].results[Pipeline[i - 1].name].status
                      \in {"success", "failed"}

MaxCreates == 2
MaxWaits == 1

TeamTaskNames == {Pipeline[i].name : i \in {j \in DOMAIN Pipeline : Pipeline[j].is_team_task}}

\* every team id a caller can hold or make up
TeamIds == {TeamId(n, h, c) : n \in TeamTaskNames, h \in Windows, c \in 0..MaxClock}

\* a set_team_ready without the membership test: an absent team comes back
set_team_ready_NoGuard(reg, evs, team_id) ==
    LET reg1 == IF team_id \in DOMAIN reg.tasks THEN reg
                ELSE create_team(reg, team_id, team_id[1], team_id[2], <<>>, <<0, 0>>)
    IN  [reg |-> [reg1 EXCEPT !.tasks[team_id].status = "ready"],
         ev_set |-> evs \cup {reg1.events[team_id]}]

set_team_ready(reg, evs, team_id) ==
    IF team_id \in DOMAIN reg.tasks
    THEN [reg |-> [reg EXCEPT !.tasks[team_id].status = "ready"],
          ev_set |-> evs \cup {reg.events[team_id]}]
    ELSE [reg |-> reg, ev_set |-> evs]

CoCreateTeam(task_name, leader_hwnd, member_hwnds) ==
    /\ Len(co_returned) < MaxCreates
    /\ LET id == TeamId(task_name, leader_hwnd, clock)
       IN  /\ SetRegistry(create_team(Registry, id, task_name, leader_hwnd,
                                      member_hwnds, <<0, Len(co_returned) + 1>>))
           /\ co_returned' = Append(co_returned, id)
           /\ co_given' = (id :> [leader |-> leader_hwnd, members |-> member_hwnds])
                              @@ co_given
    /\ UNCHANGED <<clock, ev_set, runVars, waits, co_gone, co_readied, co_noop,
                   mgrVars, matesVars, launcherVars>>

\* set_team_ready; a waiter on the team has seen the call when the team was
\* registered
CoSetTeamReady(team_id) ==
    /\ LET r == set_team_ready(Registry, ev_set, team_id)
       IN  /\ SetRegistry(r.reg)
           /\ ev_set' = r.ev_set
    /\ IF team_id \in DOMAIN team_tasks
       THEN /\ co_readied' = co_readied \cup {team_id}
            /\ waits' = [w \in DOMAIN waits |->
                            IF waits[w].pc = "waiting" /\ waits[w].team_id = team_id
                            THEN [waits[w] EXCEPT !.signalled = TRUE]
                            ELSE waits[w]]
       ELSE UNCHANGED <<co_readied, waits>>
    /\ co_noop' = co_noop \cup
           (IF team_id \in co_readied /\ team_id \in DOMAIN co_given
            THEN {"set_ready_again"}
            ELSE {})
    /\ UNCHANGED <<clock, runVars, co_returned, co_given, co_gone, mgrVars, matesVars, launcherVars>>

CoDisbandTeam(team_id) ==
    /\ SetRegistry(disband_team(Registry, team_id))
    /\ IF team_id \in DOMAIN team_tasks
       THEN /\ co_gone' = co_gone \cup {team_id}
            /\ co_given' = DropKey(co_given, team_id)
       ELSE UNCHANGED <<co_gone, co_given>>
    /\ co_noop' = co_noop \cup
           (IF team_id \notin DOMAIN co_given /\ team_id \in co_gone
            THEN {"disband_again"}
            ELSE {})
    /\ UNCHANGED <<clock, ev_set, runVars, co_returned, waits, co_readied, mgrVars, matesVars, launcherVars>>

\* the timeout arguments of wait_for_team_ready, in seconds
Timeouts == {1}

\* wait_for_team_ready up to its await: self.team_events[team_id] is looked
\* up first, a missing key raises KeyError out of the call; the caller then
\* waits on the Event object it found.
CoWaitBegin(team_id, timeout) ==
    /\ Len(waits) < MaxWaits
    /\ clock + 2 * timeout <= MaxClock
    /\ waits' = Append(waits,
           IF team_id \in DOMAIN team_events
           THEN [team_id |-> team_id, ev |-> team_events[team_id],
                 deadline |-> clock + 2 * timeout, pc |-> "waiting",
                 ret |-> None, signalled |-> team_id \in co_readied]
           ELSE [team_id |-> team_id, ev |-> <<>>,
                 deadline |-> clock + 2 * timeout, pc |-> "raised",
                 ret |-> "KeyError", signalled |-> FALSE])
    /\ UNCHANGED <<clock, coordVars, runVars, co_returned, co_given, co_gone,
                   co_readied, co_noop, mgrVars, matesVars, launcherVars>>

\* the Event the caller waits on is set: return True
CoWaitWake(w) ==
    /\ w \in DOMAIN waits
    /\ waits[w].pc = "waiting"
    /\ waits[w].ev \in ev_set
    /\ waits' = [waits EXCEPT ![w].pc = "returned", ![w].ret = "True"]
    /\ UNCHANGED <<clock, coordVars, runVars, co_returned, co_given, co_gone,
                   co_readied, co_noop, mgrVars, matesVars, launcherVars>>

\* asyncio.wait_for times out: TimeoutError is caught, return False
CoWaitTimeout(w) ==
    /\ w \in DOMAIN waits
    /\ waits[w].pc = "waiting"
    /\ waits[w].ev \notin ev_set
    /\ clock >= waits[w].deadline
    /\ waits' = [waits EXCEPT ![w].pc = "returned", ![w].ret = "False"]
    /\ UNCHANGED <<clock, coordVars, runVars, co_returned, co_given, co_gone,
                   co_readied, co_noop, mgrVars, matesVars, launcherVars>>

CoordSpecInit ==
    /\ clock = 0
    /\ CoordInit
    /\ RunInit
    /\ raises = {}
    /\ MgrInit(3)
    /\ MatesIdle
    /\ LauncherInit

CoordNext ==
    \/ \E n \in TeamTaskNames : \E h \in Windows : \E m \in Selections :
           CoCreateTeam(n, h, m)
    \/ \E id \in TeamIds : CoSetTeamReady(id)
    \/ \E id \in TeamIds : CoDisbandTeam(id)
    \/ \E id \in TeamIds : \E t \in Timeouts : CoWaitBegin(id, t)
    \/ \E w \in 1..MaxWaits : CoWaitWake(w)
    \/ \E w \in 1..MaxWaits : CoWaitTimeout(w)
    \/ Tick

SpecCoord == CoordSpecInit /\ [][CoordNext]_vars

\* C2: no two create_team calls return the same team id.
C2_DistinctTeamIds ==
    \A i, j \in DOMAIN co_returned : i # j => co_returned[i] # co_returned[j]

\* C11: a wait_for_team_ready call on a registered team that has returned
\* gave True exactly when set_team_ready was called on that team before the
\* wait began or while the caller was waiting, and False otherwise.
C11_WaitResult ==
    \A w \in DOMAIN waits :
        waits[w].pc = "returned" => (waits[w].ret = "True" <=> waits[w].signalled)

\* C12: no coordinator call raises to its caller, whatever the team id.
C12_NoRaise ==
    \A w \in DOMAIN waits : waits[w].pc # "raised"

\* the handles a caller can ask about: the windows and a handle of no team
Handles == 0..NumWindows

\* the role the arguments of the team's create_team call give to h
GivenRole(team_id, h) ==
    IF team_id \notin DOMAIN co_given THEN "solo"
    ELSE IF h = co_given[team_id].leader THEN "leader"
    ELSE IF h \in Range(co_given[team_id].members) THEN "member"
    ELSE "solo"

\* C13: get_team_role gives leader to the leader of a registered team, member
\* to a listed member that is not the leader, and solo to every other handle
\* and for every id that is unknown or disbanded.
C13_RoleMapping ==
    \A id \in TeamIds : \A h \in Handles :
        get_team_role(Registry, id, h) = GivenRole(id, h)

C13_Witness ==
    /\ \E id \in DOMAIN team_tasks : \E h1, h2, h3 \in Handles :
          /\ get_team_role(Registry, id, h1) = "leader"
          /\ h1 \in Range(team_tasks[id].members)
          /\ get_team_role(Registry, id, h2) = "member"
          /\ get_team_role(Registry, id, h3) = "solo"
    /\ \E id \in co_gone \ DOMAIN team_tasks : \A h \in Handles :
          get_team_role(Registry, id, h) = "solo"

\* C14: disband_team on an id that is not registered (never created, or
\* disbanded before) leaves the three maps of the registry as they were, and
\* disbanding twice gives what disbanding once gives.
C14_DisbandIdempotent ==
    \A id \in TeamIds :
        LET r1 == disband_team(Registry, id)
        IN  /\ disband_team(r1, id) = r1
            /\ id \notin DOMAIN co_given => r1 = Registry

C14_Witness ==
    /\ "disband_again" \in co_noop
    /\ \E id \in DOMAIN team_tasks : team_events[id] \in ev_set

\* C15: the three maps of the registry hold the same team ids, those of the
\* teams created and not disbanded since.
C15_RegistryConsistent ==
    /\ DOMAIN team_tasks = DOMAIN co_given
    /\ DOMAIN team_members = DOMAIN co_given
    /\ DOMAIN team_events = DOMAIN co_given

C15_Witness ==
    /\ \E id \in (co_gone \cap co_readied) : id \notin DOMAIN team_tasks
    /\ \E id \in DOMAIN team_tasks : team_tasks[id].status = "forming"

\* C16: a registered team that was made ready has status ready and a set
\* Event, and no id that disband_team removed is in the registry.
C16_LifecycleMonotonic ==
    \A id \in DOMAIN team_tasks :
        /\ id \in co_readied =>
               /\ team_tasks[id].status = "ready"
               /\ team_events[id] \in ev_set
        /\ id \notin co_gone

\* C17: set_team_ready on a registered team gives it status ready and a set
\* Event and touches nothing else; on an id that is not registered it changes
\* nothing; calling it twice gives what calling it once gives.
C17_SetReadyIdempotent ==
    \A id \in TeamIds :
        LET r1 == set_team_ready(Registry, ev_set, id)
            r2 == set_team_ready(r1.reg, r1.ev_set, id)
        IN  /\ r2 = r1
            /\ IF id \in DOMAIN co_given
               THEN /\ r1.reg.tasks[id].status = "ready"
                    /\ r1.reg.events[id] \in r1.ev_set
                    /\ r1.ev_set = ev_set \cup {team_events[id]}
                    /\ r1.reg.members = team_members
                    /\ r1.reg.events = team_events
                    /\ r1.reg.tasks = [team_tasks EXCEPT ![id].status = "ready"]
               ELSE r1 = [reg |-> Registry, ev_set |-> ev_set]

C17_Witness ==
    /\ "set_ready_again" \in co_noop
    /\ \E id \in DOMAIN team_tasks : team_tasks[id].status = "ready"
    /\ \E id \in co_gone : id \notin DOMAIN team_tasks

\* C23: get_team_members gives, for a registered team, the members its
\* create_team call was given (without the leader), and the empty list for an
\* id that is unknown or disbanded.
C23_MembersAsGiven ==
    \A id \in TeamIds :
        get_team_members(Registry, id) =
            (IF id \in DOMAIN co_given THEN co_given[id].members ELSE <<>>)

\* ------------------------------------------------------------------ one team task, for every team size
NumClients == 4
MaxTeamSize == 3

Clients == 1..NumClients

\* window_info['available_windows']: the handles of the windows of a run
ClientLists == {SeqOfSet(S) : S \in SUBSET Clients}

\* the 'team_size' of a task_config
TeamSizes == -1..MaxTeamSize

\* self._get_teammates_for_task(task_name, team_size)
MatesCall ==
    /\ ~mates_out.called
    /\ mates_out' = [called |-> TRUE,
                     value |-> get_teammates_for_task(mates_in.all_windows,
                                                      mates_in.hwnd,
                                                      mates_in.team_size)]
    /\ UNCHANGED <<clock, coordVars, runVars, coApiVars, mgrVars, mates_in,
                   launcherVars>>

\* _execute_team_task of the window's executor, for the second pipeline task
MatesExecute ==
    /\ executors = <<>>
    /\ LET r == execute_team_task(NewExecutor(mates_in.hwnd), 1, 2,
                                  Pipeline[2].name, mates_in.team_size,
                                  mates_in.all_windows, Registry, clock)
       IN  /\ executors' = <<r.ex>>
           /\ SetRegistry(r.reg)
    /\ UNCHANGED <<clock, ev_set, raises, dt_is_running, window_executors,
                   available_windows, calls, coApiVars, mgrVars, matesVars,
                   launcherVars>>

MatesSpecInit ==
    /\ clock = 0
    /\ CoordInit
    /\ RunInit
    /\ raises = {}
    /\ MgrInit(3)
    /\ LauncherInit
    /\ mates_in \in [all_windows : ClientLists, hwnd : Clients, team_size : TeamSizes]
    /\ mates_in.hwnd \in Range(mates_in.all_windows)
    /\ mates_out = [called |-> FALSE, value |-> <<>>]

MatesNext ==
    \/ MatesCall
    \/ MatesExecute

SpecMates == MatesSpecInit /\ [][MatesNext]_vars

\* the windows of the run other than the executor's own
Others == Range(mates_in.all_windows) \ {mates_in.hwnd}

\* C25: a team task with no candidate teammate (no other window in the run,
\* or a team size that leaves room for no one else) is run solo and leaves
\* the registry as it was: no team is created.
C25_SoloFallback ==
    (executors # <<>> /\ (Others = {} \/ mates_in.team_size <= 1)) =>
        /\ executors[1].role = "solo"
        /\ executors[1].team_id = NoTeam
        /\ executors[1].current_team_id = NoTeam
        /\ team_tasks = <<>> /\ team_members = <<>> /\ team_events = <<>>

\* C26: the teammates selected are windows of the run, the executor's own
\* window is not among them, and they number at most team_size - 1: none
\* when team_size is 1 or less.
C26_TeammateSelection ==
    mates_out.called =>
        /\ Range(mates_out.value) \subseteq Others
        /\ Len(mates_out.value) <= Max(mates_in.team_size - 1, 0)

\* ------------------------------------------------------------------ ThreadedGameLauncher
MaxLaunches == 2

\* launch_games_threaded up to the as_completed loop: the result dict is made
\* and one _launch_single_game is submitted to the pool for every window.
\* The call blocks its caller, so calls on one launcher follow one another.
LaunchBegin(sel) ==
    /\ Len(launches) < MaxLaunches
    /\ \A k \in DOMAIN launches : launches[k].pc = "returned"
    /\ sel \in Selections
    /\ launches' = Append(launches,
           [selected |-> sel,
            futures |-> [j \in DOMAIN sel |-> "pending"],
            collected |-> {},
            pc |-> "collect",
            total |-> Len(sel),
            success |-> 0,
            failed |-> 0,
            details |-> <<>>])
    /\ UNCHANGED <<clock, coordVars, runVars, coApiVars, mgrVars, matesVars,
                   stop_event, caller_stopped>>

\* _launch_single_game returns for window j: a result with success True, or
\* one with success False (connection or launch failed, or an exception was
\* caught)
LaunchWorkerDone(k, j, ok) ==
    /\ k \in DOMAIN launches
    /\ j \in DOMAIN launches[k].futures
    /\ launches[k].futures[j] = "pending"
    /\ launches' = [launches EXCEPT ![k].futures[j] = IF ok THEN "success" ELSE "failed"]
    /\ UNCHANGED <<clock, coordVars, runVars, coApiVars, mgrVars, matesVars,
                   stop_event, caller_stopped>>

\* as_completed yields the finished future of window j: the loop is left when
\* stop_event is set, the result is added to the tally otherwise
LaunchCollect(k, j) ==
    /\ k \in DOMAIN launches
    /\ launches[k].pc = "collect"
    /\ j \in DOMAIN launches[k].futures
    /\ j \notin launches[k].collected
    /\ launches[k].futures[j] # "pending"
    /\ launches' =
           IF stop_event
           THEN [launches EXCEPT ![k].pc = "exit"]
           ELSE [launches EXCEPT
                    ![k].collected = @ \cup {j},
                    ![k].details = Append(@, [hwnd |-> launches[k].selected[j],
                                              success |-> launches[k].futures[j] = "success"]),
                    ![k].success = IF launches[k].futures[j] = "success" THEN @ + 1 ELSE @,
                    ![k].failed = IF launches[k].futures[j] = "success" THEN @ ELSE @ + 1]
    /\ UNCHANGED <<clock, coordVars, runVars, coApiVars, mgrVars, matesVars,
                   stop_event, caller_stopped>>

\* as_completed has yielded every future: the loop ends
LaunchLoopEnd(k) ==
    /\ k \in DOMAIN launches
    /\ launches[k].pc = "collect"
    /\ launches[k].collected = DOMAIN launches[k].futures
    /\ launches' = [launches EXCEPT ![k].pc = "exit"]
    /\ UNCHANGED <<clock, coordVars, runVars, coApiVars, mgrVars, matesVars,
                   stop_event, caller_stopped>>

\* the with block is left, which waits for the pool's workers; stop_event is
\* set for the progress thread and the tally is returned
LaunchReturn(k) ==
    /\ k \in DOMAIN launches
    /\ launches[k].pc = "exit"
    /\ \A j \in DOMAIN launches[k].futures : launches[k].futures[j] # "pending"
    /\ launches' = [launches EXCEPT ![k].pc = "returned"]
    /\ stop_event' = TRUE
    /\ UNCHANGED <<clock, coordVars, runVars, coApiVars, mgrVars, matesVars,
                   caller_stopped>>

\* the caller sets launcher.stop_event to stop a launch
LaunchCallerStop ==
    /\ ~caller_stopped
    /\ stop_event' = TRUE
    /\ caller_stopped' = TRUE
    /\ UNCHANGED <<clock, coordVars, runVars, coApiVars, mgrVars, matesVars, launches>>

LauncherSpecInit ==
    /\ clock = 0
    /\ CoordInit
    /\ RunInit
    /\ raises = {}
    /\ MgrInit(3)
    /\ MatesIdle
    /\ LauncherInit

LauncherNext ==
    \/ \E sel \in Selections : LaunchBegin(sel)
    \/ \E k \in 1..MaxLaunches : \E j \in Windows : \E ok \in BOOLEAN :
           LaunchWorkerDone(k, j, ok)
    \/ \E k \in 1..MaxLaunches : \E j \in Windows : LaunchCollect(k, j)
    \/ \E k \in 1..MaxLaunches : LaunchLoopEnd(k)
    \/ \E k \in 1..MaxLaunches : LaunchReturn(k)
    \/ LaunchCallerStop

SpecLauncher == LauncherSpecInit /\ [][LauncherNext]_vars

\* C30: a launch_games_threaded call the caller did not stop returns a tally
\* with one details entry per selected window and success + failed = total,
\* a second call on the same launcher included.
C30_LauncherTally ==
    \A k \in DOMAIN launches :
        (launches[k].pc = "returned" /\ ~caller_stopped) =>
            /\ launches[k].total = Len(launches[k].selected)
            /\ Len(launches[k].details) = Len(launches[k].selected)
            /\ {launches[k].details[d].hwnd : d \in DOMAIN launches[k].details}
                   = Range(launches[k].selected)
            /\ launches[k].success + launches[k].failed = launches[k].total

\* ------------------------------------------------------------------ GameAutomationManager
MaxConcurrent == 2
MaxSubmit == 3
MaxWaitAll == 1
MaxSnapshots == 1

NoName == <<>>

\* the task_name arguments of submit_task: none, or the text "task_2"
TaskNameArgs == {NoName, <<"task", 2>>}

\* task_name or f"task_{self.task_counter}"
TaskIdFor(task_name, counter) ==
    IF task_name # NoName THEN task_name ELSE <<"task", counter>>

NewTask(task_id) ==
    [task_id |-> task_id, state |-> "scheduled", must_cancel |-> FALSE, outcome |-> None]

Running == {t \in DOMAIN mtasks : mtasks[t].state = "running"}

\* submit_task
MgrSubmit(task_name) ==
    /\ task_counter < MaxSubmit
    /\ task_counter' = task_counter + 1
    /\ LET task_id == TaskIdFor(task_name, task_counter + 1)
       IN  /\ mtasks' = Append(mtasks, NewTask(task_id))
           /\ active_tasks' = (task_id :> (Len(mtasks) + 1)) @@ active_tasks
    /\ UNCHANGED <<clock, coordVars, runVars, coApiVars, matesVars, launcherVars,
                   max_concurrent, sem_value,
                   task_results, waitall, snapshots>>

\* the first step of _run_task_with_limit: the semaphore is entered when a
\* slot is free, the task waits for one otherwise; a task cancelled before
\* its first step never runs.
MgrTaskStart(t) ==
    /\ t \in DOMAIN mtasks
    /\ mtasks[t].state = "scheduled"
    /\ IF mtasks[t].must_cancel
       THEN /\ mtasks' = [mtasks EXCEPT ![t].state = "finished",
                                        ![t].outcome = "cancelled"]
            /\ UNCHANGED sem_value
       ELSE IF sem_value > 0
       THEN /\ mtasks' = [mtasks EXCEPT ![t].state = "running"]
            /\ sem_value' = sem_value - 1
       ELSE /\ mtasks' = [mtasks EXCEPT ![t].state = "waiting"]
            /\ UNCHANGED sem_value
    /\ UNCHANGED <<clock, coordVars, runVars, coApiVars, matesVars, launcherVars,
                   max_concurrent, active_tasks,
                   task_results, task_counter, waitall, snapshots>>

\* a waiting task gets a slot
MgrTaskAcquire(t) ==
    /\ t \in DOMAIN mtasks
    /\ mtasks[t].state = "waiting"
    /\ ~mtasks[t].must_cancel
    /\ sem_value > 0
    /\ mtasks' = [mtasks EXCEPT ![t].state = "running"]
    /\ sem_value' = sem_value - 1
    /\ UNCHANGED <<clock, coordVars, runVars, coApiVars, matesVars, launcherVars,
                   max_concurrent, active_tasks,
                   task_results, task_counter, waitall, snapshots>>

\* task_func returns (ok) or raises: the semaphore is left
MgrTaskFinish(t, ok) ==
    /\ t \in DOMAIN mtasks
    /\ mtasks[t].state = "running"
    /\ ~mtasks[t].must_cancel
    /\ mtasks' = [mtasks EXCEPT ![t].state = "finished",
                                ![t].outcome = IF ok THEN "result" ELSE "exception"]
    /\ sem_value' = sem_value + 1
    /\ UNCHANGED <<clock, coordVars, runVars, coApiVars, matesVars, launcherVars,
                   max_concurrent, active_tasks,
                   task_results, task_counter, waitall, snapshots>>

\* a cancelled task that gives a slot back although it never took one
MgrTaskCancelled_AlwaysRelease(t) ==
    /\ t \in DOMAIN mtasks
    /\ mtasks[t].state \in {"waiting", "running"}
    /\ mtasks[t].must_cancel
    /\ mtasks' = [mtasks EXCEPT ![t].state = "finished", ![t].outcome = "cancelled"]
    /\ sem_value' = sem_value + 1
    /\ UNCHANGED <<clock, coordVars, runVars, coApiVars, matesVars, launcherVars,
                   max_concurrent, active_tasks,
                   task_results, task_counter, waitall, snapshots>>

\* CancelledError reaches a task that waits for a slot or runs task_func: only
\* a task inside the semaphore gives a slot back.
MgrTaskCancelled(t) ==
    /\ t \in DOMAIN mtasks
    /\ mtasks[t].state \in {"waiting", "running"}
    /\ mtasks[t].must_cancel
    /\ mtasks' = [mtasks EXCEPT ![t].state = "finished", ![t].outcome = "cancelled"]
    /\ sem_value' = IF mtasks[t].state = "running" THEN sem_value + 1 ELSE sem_value
    /\ UNCHANGED <<clock, coordVars, runVars, coApiVars, matesVars, launcherVars,
                   max_concurrent, active_tasks,
                   task_results, task_counter, waitall, snapshots>>

\* what task_func of task t returned
ReturnValue(t) == [status |-> "returned", of |-> t, error |-> None]

\* {'status': 'failed', 'error': str(e), ...} for the exception of task t
FailureRecord(t) == [status |-> "failed", of |-> t, error |-> "error"]

\* _task_done_callback(task_id, future). future.result() of a cancelled task
\* raises CancelledError, which is no Exception: the callback ends there.
MgrDoneCallback(t) ==
    /\ t \in DOMAIN mtasks
    /\ mtasks[t].state = "finished"
    /\ mtasks' = [mtasks EXCEPT ![t].state = "closed"]
    /\ LET id == mtasks[t].task_id
       IN  CASE mtasks[t].outcome = "result" ->
                    /\ task_results' = (id :> ReturnValue(t)) @@ task_results
                    /\ active_tasks' = DropKey(active_tasks, id)
             [] mtasks[t].outcome = "exception" ->
                    /\ task_results' = (id :> FailureRecord(t)) @@ task_results
                    /\ active_tasks' = DropKey(active_tasks, id)
             [] OTHER ->
                    UNCHANGED <<task_results, active_tasks>>
    /\ UNCHANGED <<clock, coordVars, runVars, coApiVars, matesVars, launcherVars,
                   max_concurrent, sem_value,
                   task_counter, waitall, snapshots>>

\* shutdown
MgrShutdown ==
    /\ mtasks' = [t \in DOMAIN mtasks |->
                     IF /\ t \in Range(active_tasks)
                        /\ mtasks[t].state \notin {"finished", "closed"}
                     THEN [mtasks[t] EXCEPT !.must_cancel = TRUE]
                     ELSE mtasks[t]]
    /\ UNCHANGED <<clock, coordVars, runVars, coApiVars, matesVars, launcherVars,
                   max_concurrent, sem_value,
                   active_tasks, task_results, task_counter, waitall, snapshots>>

Done(t) == mtasks[t].state \in {"finished", "closed"}

\* wait_all_complete up to its await: it returns at once when active_tasks is
\* empty, and awaits the gather of the tasks in active_tasks otherwise.
\* before notes the tasks submitted so far.
MgrWaitAll(has_timeout) ==
    /\ Len(waitall) < MaxWaitAll
    /\ waitall' = Append(waitall,
           [pc |-> IF DOMAIN active_tasks = {} THEN "returned" ELSE "gather",
            awaited |-> Range(active_tasks),
            before |-> DOMAIN mtasks,
            has_timeout |-> has_timeout,
            timed_out |-> FALSE])
    /\ UNCHANGED <<clock, coordVars, runVars, coApiVars, matesVars, launcherVars,
                   max_concurrent, sem_value,
                   active_tasks, task_results, task_counter, mtasks, snapshots>>

\* the timeout of asyncio.wait_for elapses: the gather is cancelled, which
\* cancels its tasks that are not done, and wait_for waits for that to end
MgrWaitAllTimeout(k) ==
    /\ k \in DOMAIN waitall
    /\ waitall[k].pc = "gather"
    /\ waitall[k].has_timeout
    /\ waitall' = [waitall EXCEPT ![k].timed_out = TRUE, ![k].pc = "cancelling"]
    /\ mtasks' = [t \in DOMAIN mtasks |->
                     IF t \in waitall[k].awaited /\ ~Done(t)
                     THEN [mtasks[t] EXCEPT !.must_cancel = TRUE]
                     ELSE mtasks[t]]
    /\ UNCHANGED <<clock, coordVars, runVars, coApiVars, matesVars, launcherVars,
                   max_concurrent, sem_value,
                   active_tasks, task_results, task_counter, snapshots>>

\* every awaited task is done and its done callbacks have run: the gather is
\* over, a TimeoutError is caught, and wait_all_complete returns
MgrWaitAllReturn(k) ==
    /\ k \in DOMAIN waitall
    /\ waitall[k].pc \in {"gather", "cancelling"}
    /\ \A t \in waitall[k].awaited : mtasks[t].state = "closed"
    /\ waitall' = [waitall EXCEPT ![k].pc = "returned"]
    /\ UNCHANGED <<clock, coordVars, runVars, coApiVars, matesVars, launcherVars,
                   max_concurrent, sem_value,
                   active_tasks, task_results, task_counter, mtasks, snapshots>>

\* get_results: a copy of task_results
MgrGetResults ==
    /\ Len(snapshots) < MaxSnapshots
    /\ snapshots' = Append(snapshots, task_results)
    /\ UNCHANGED <<clock, coordVars, runVars, coApiVars, matesVars, launcherVars,
                   max_concurrent, sem_value,
                   active_tasks, task_results, task_counter, mtasks, waitall>>

MgrSpecInit ==
    /\ clock = 0
    /\ CoordInit
    /\ RunInit
    /\ raises = {}
    /\ \E k \in 1..MaxConcurrent : MgrInit(k)
    /\ MatesIdle
    /\ LauncherInit

MgrNext ==
    \/ \E n \in TaskNameArgs : MgrSubmit(n)
    \/ \E t \in 1..MaxSubmit : MgrTaskStart(t)
    \/ \E t \in 1..MaxSubmit : MgrTaskAcquire(t)
    \/ \E t \in 1..MaxSubmit : \E ok \in BOOLEAN : MgrTaskFinish(t, ok)
    \/ \E t \in 1..MaxSubmit : MgrTaskCancelled(t)
    \/ \E t \in 1..MaxSubmit : MgrDoneCallback(t)
    \/ MgrShutdown
    \/ \E has_timeout \in BOOLEAN : MgrWaitAll(has_timeout)
    \/ \E k \in 1..MaxWaitAll : MgrWaitAllTimeout(k)
    \/ \E k \in 1..MaxWaitAll : MgrWaitAllReturn(k)
    \/ MgrGetResults

SpecMgr == MgrSpecInit /\ [][MgrNext]_vars

\* C1: the number of submitted task functions running inside the semaphore
\* never exceeds max_concurrent.
C1_ConcurrencyBound == Cardinality(Running) <= max_concurrent

C1_Witness ==
    /\ Len(mtasks) > max_concurrent
    /\ Cardinality(Running) = max_concurrent
    /\ \E t \in DOMAIN mtasks : mtasks[t].state = "waiting"
    /\ \E t \in DOMAIN mtasks : mtasks[t].outcome \in {"exception", "cancelled"}

\* C20: when a wait_all_complete call made without a timeout has returned,
\* every task submitted before the call is done; a call made with a timeout
\* whose timeout elapsed returns.
C20_WaitsForAll ==
    \A k \in DOMAIN waitall :
        (waitall[k].pc = "returned" /\ ~waitall[k].has_timeout) =>
            \A t \in waitall[k].before : Done(t)

C21_Recorded ==
    \A t \in DOMAIN mtasks :
        /\ (mtasks[t].state = "closed" /\ mtasks[t].outcome = "result") =>
               /\ mtasks[t].task_id \in DOMAIN task_results
               /\ task_results[mtasks[t].task_id] = ReturnValue(t)
        /\ (mtasks[t].state = "closed" /\ mtasks[t].outcome = "exception") =>
               /\ mtasks[t].task_id \in DOMAIN task_results
               /\ task_results[mtasks[t].task_id] = FailureRecord(t)

\* C21: once the done callback of a task that returned or raised has run,
\* task_results holds under the task's id the value it returned, or the
\* failure record of its exception; and a dict get_results returned is not
\* changed by later completions.
C21_ResultsRecorded ==
    /\ [](C21_Recorded)
    /\ [][\A k \in DOMAIN snapshots : snapshots'[k] = snapshots[k]]_vars

\* C22: a shutdown call marks every submitted task that is not done for
\* cancellation and changes no recorded result.
C22_ShutdownCancelsAll ==
    [][MgrShutdown =>
          /\ \A t \in DOMAIN mtasks : ~Done(t) => mtasks'[t].must_cancel
          /\ task_results' = task_results]_vars

\* C27: no two tasks that are not done share a task id, and active_tasks
\* holds every task that is not done under its id.
C27_UniqueInFlightIds ==
    /\ \A t1, t2 \in DOMAIN mtasks :
          (t1 # t2 /\ ~Done(t1) /\ ~Done(t2)) => mtasks[t1].task_id # mtasks[t2].task_id
    /\ \A t \in DOMAIN mtasks :
          ~Done(t) =>
              /\ mtasks[t].task_id \in DOMAIN active_tasks
              /\ active_tasks[mtasks[t].task_id] = t

\* C28: the step in which the timeout of a wait_all_complete call elapses
\* leaves every task as it is: none is cancelled.
C28_TimeoutOnlyObserves ==
    [][\A k \in DOMAIN waitall :
          (waitall[k].pc = "gather" /\ waitall'[k].pc = "cancelling") =>
              mtasks' = mtasks]_vars

\* C29: a task that is over, its done callback run, is no longer in
\* active_tasks and has an entry in task_results, whether it returned,
\* raised or was cancelled.
C29_InFlightBookkeeping ==
    \A t \in DOMAIN mtasks :
        mtasks[t].state = "closed" =>
            /\ t \notin Range(active_tasks)
            /\ mtasks[t].task_id \in DOMAIN task_results

====
